---- MODULE Spec2Model ----
(***************************************************************************)
(* Model of src/src/memoize.ts: memoize_async, a promise cache keyed by    *)
(* the textual encoding of a tuple of scalar arguments, with a per-entry   *)
(* expiry timer (setTimeout) and an insertion-ordered size bound.          *)
(*                                                                         *)
(* Time is counted in seconds.  A timer armed by setTimeout(cb, ttl*1000)  *)
(* carries the seconds left until it is due; it never fires before it is   *)
(* due and the clock does not pass that instant while the timer is still   *)
(* pending (at the instant itself the callback and other operations run in *)
(* either order).  JavaScript runs each call, timer callback and           *)
(* clear_cache to completion, so each is one atomic action.                *)
(***************************************************************************)
EXTENDS Integers, Sequences, FiniteSets, TLC

VARIABLES
    options,     \* { ttl, size } given to memoize_async, fixed at construction
    cache,       \* the Map, as the sequence of its entries in iteration order
    timers,      \* pending setTimeout callbacks
    promises,    \* the promises returned by f, in the order of invocation
    cleared,     \* history: clear_cache has run and no call has run since
    clearedUpTo, \* history: promises 1..clearedUpTo predate the latest clear_cache
    sinceInsert, \* history: per key, seconds since its latest insertion
    last,        \* history: the latest operation and what it observed
    encArgs,     \* key encoder harness: the two argument tuples given
    encKeys,     \* key encoder harness: their keys (<<>> before encoding)
    other        \* a second memoized function, built by another memoize_async call

vars == <<options, cache, timers, promises, cleared, clearedUpTo, sinceInsert, last,
          encArgs, encKeys, other>>

encVars == <<encArgs, encKeys>>

----------------------------------------------------------------------------
(* Bounds *)

MaxTtl == 2

MaxSize == 2

MaxInvocations == 3

MaxStrLen == 2

MaxNum == 2

MaxArity == 2

MaxOtherInvocations == 2

----------------------------------------------------------------------------
(* SimpleArgs: (string | number | boolean | undefined)[]                    *)
(* A string is the sequence of its characters.                              *)

Str(s) == [t |-> "string", s |-> s]

Num(n) == [t |-> "number", n |-> n]

Bool(b) == [t |-> "boolean", b |-> b]

Undefined == [t |-> "undefined"]

Alphabet == {"_", "x"}

RECURSIVE SeqsUpTo(_, _)
SeqsUpTo(S, n) ==
    IF n = 0 THEN {<<>>}
    ELSE LET shorter == SeqsUpTo(S, n - 1)
         IN shorter \cup {Append(s, c) : s \in shorter, c \in S}

DigitChars == <<"0", "1", "2", "3", "4", "5", "6", "7", "8", "9">>

RECURSIVE NumberToString(_)
NumberToString(n) ==
    IF n < 10 THEN <<DigitChars[n + 1]>>
    ELSE Append(NumberToString(n \div 10), DigitChars[(n % 10) + 1])

\* `${arg}` for the members of SimpleArgs
TemplateString(arg) ==
    CASE arg.t = "string" -> arg.s
      [] arg.t = "number" -> NumberToString(arg.n)
      [] arg.t = "boolean" -> IF arg.b THEN <<"t", "r", "u", "e">>
                                       ELSE <<"f", "a", "l", "s", "e">>
      [] arg.t = "undefined" -> <<"u", "n", "d", "e", "f", "i", "n", "e", "d">>

\* createCacheKeyFromArgs gone wrong: only the first argument is encoded
createCacheKeyFromArgs_FirstOnly(args) ==
    IF args = <<>> THEN <<>>
    ELSE <<"_">> \o TemplateString(args[1]) \o <<"_">>

RECURSIVE createCacheKeyFromArgs(_)
createCacheKeyFromArgs(args) ==
    IF args = <<>> THEN <<>>
    ELSE createCacheKeyFromArgs(SubSeq(args, 1, Len(args) - 1))
            \o <<"_">> \o TemplateString(args[Len(args)]) \o <<"_">>

----------------------------------------------------------------------------
(* Map<key, Promise>: iteration follows the order of first insertion *)

\* MapHas gone wrong: the first entry is skipped
MapHas_SkipsFirst(m, k) == \E i \in DOMAIN m \ {1} : m[i].key = k

MapHas(m, k) == \E i \in DOMAIN m : m[i].key = k

\* MapGet gone wrong: only the most recently inserted entry is found
MapGet_LatestOnly(m, k) ==
    IF m # <<>> /\ m[Len(m)].key = k THEN m[Len(m)].value ELSE 0

\* MapGet gone wrong: the value of the first entry is returned for any stored key
MapGet_FirstValue(m, k) ==
    IF MapHas(m, k) THEN m[1].value ELSE 0

\* Map.get: the value under k, or 0 for undefined (promises are numbered from 1)
MapGet(m, k) ==
    IF MapHas(m, k) THEN m[CHOOSE i \in DOMAIN m : m[i].key = k].value ELSE 0

\* MapSet gone wrong: a new key goes first
MapSet_Front(m, k, v) ==
    IF \E i \in DOMAIN m : m[i].key = k
    THEN [i \in DOMAIN m |-> IF m[i].key = k THEN [key |-> k, value |-> v] ELSE m[i]]
    ELSE <<[key |-> k, value |-> v]>> \o m

\* Map.set: an existing key keeps its position, a new key goes last
MapSet(m, k, v) ==
    IF MapHas(m, k)
    THEN [i \in DOMAIN m |-> IF m[i].key = k THEN [key |-> k, value |-> v] ELSE m[i]]
    ELSE Append(m, [key |-> k, value |-> v])

\* Map.delete
MapDelete(m, k) == SelectSeq(m, LAMBDA e : e.key # k)

\* MapFirstKey gone wrong: the key inserted last
MapFirstKey_Newest(m) == m[Len(m)].key

\* Map.keys().next().value
MapFirstKey(m) == m[1].key

\* Evict gone wrong: the bound is off by one
Evict_OffByOne(m, size) ==
    IF Len(m) > size + 1 THEN MapDelete(m, MapFirstKey(m)) ELSE m

\* lines 66-69: delete the oldest item when the cache is full
Evict(m, size) ==
    IF Len(m) > size THEN MapDelete(m, MapFirstKey(m)) ELSE m

----------------------------------------------------------------------------
(* The arguments the callers use *)

CallArgs ==
    { <<Num(1)>>, <<Num(2)>>, <<Num(1), Str(<<"x">>)>> }

\* the calls of the key distinctness example: call(1), call(2), call(1, "x"), call(1, "y")
DistinctArgs ==
    { <<Num(1)>>, <<Num(2)>>, <<Num(1), Str(<<"x">>)>>, <<Num(1), Str(<<"y">>)>> }

CallKeys == {createCacheKeyFromArgs(args) : args \in CallArgs \cup DistinctArgs}

Never == -1

NoOp ==
    [op |-> "none", key |-> <<>>, result |-> 0, invoked |-> FALSE, had |-> 0,
     evicted |-> 0, removed |-> 0, armedFor |-> 0, prev |-> 0,
     sinceInsert |-> Never, afterClear |-> FALSE,
     sizeBefore |-> 0, args |-> <<>>, hitCache |-> <<>>, hitTimers |-> {},
     promisesBefore |-> <<>>]

\* the latest promise f returned for key k, 0 if there is none
LatestFor(ps, k) ==
    LET ids == {i \in DOMAIN ps : ps[i].key = k}
    IN IF ids = {} THEN 0 ELSE CHOOSE i \in ids : \A j \in ids : j <= i

\* the promise stored under k, read off the entries themselves
StoredUnder(m, k) ==
    LET vs == {m[i].value : i \in {j \in DOMAIN m : m[j].key = k}}
    IN IF vs = {} THEN 0 ELSE CHOOSE v \in vs : TRUE

Min(a, b) == IF a < b THEN a ELSE b

Range(m) == {m[i] : i \in DOMAIN m}

\* the state of a memoized function right after memoize_async returns it
\* (its promises are counted, not kept)
Fresh(opts) == [options |-> opts, cache |-> <<>>, timers |-> {}, invocations |-> 0]

Init ==
    /\ other = Fresh([ttl |-> 1, size |-> 1])
    /\ options \in [ttl : 1..MaxTtl, size : 1..MaxSize]
    /\ cache = <<>>
    /\ timers = {}
    /\ promises = <<>>
    /\ cleared = FALSE
    /\ clearedUpTo = 0
    /\ sinceInsert = [k \in CallKeys |-> Never]
    /\ last = NoOp
    /\ encArgs = <<>>
    /\ encKeys = <<>>

\* Call gone wrong: a hit moves the entry to the end of the eviction order
Call_HitMovesLast(args) ==
    LET cacheKey == createCacheKeyFromArgs(args)
        cached == MapGet(cache, cacheKey)
        obs == [NoOp EXCEPT !.op = "call", !.key = cacheKey,
                            !.had = StoredUnder(cache, cacheKey),
                            !.prev = LatestFor(promises, cacheKey),
                            !.sinceInsert = sinceInsert[cacheKey],
                            !.afterClear = cleared,
                            !.sizeBefore = Len(cache),
                            !.args = args,
                            !.hitCache = IF StoredUnder(cache, cacheKey) # 0
                                         THEN cache ELSE <<>>,
                            !.hitTimers = IF StoredUnder(cache, cacheKey) # 0
                                          THEN timers ELSE {},
                            !.promisesBefore = promises]
    IN IF cached # 0
       THEN /\ last' = [obs EXCEPT !.result = cached]
            /\ cleared' = FALSE
            /\ cache' = Append(MapDelete(cache, cacheKey),
                               [key |-> cacheKey, value |-> cached])
            /\ UNCHANGED <<options, timers, promises, clearedUpTo, sinceInsert,
                           encVars, other>>
       ELSE LET result == Len(promises) + 1
                inserted == MapSet(cache, cacheKey, result)
                kept == Evict(inserted, options.size)
                gone == {e.value : e \in Range(inserted)} \ {e.value : e \in Range(kept)}
            IN /\ Len(promises) < MaxInvocations
               /\ promises' = Append(promises,
                                [args |-> args, key |-> cacheKey, state |-> "pending"])
               /\ timers' = timers \cup
                                {[key |-> cacheKey, due |-> options.ttl,
                                  armedFor |-> result]}
               /\ cache' = kept
               /\ last' = [obs EXCEPT !.result = result, !.invoked = TRUE,
                                      !.evicted = IF gone = {} THEN 0
                                                  ELSE CHOOSE v \in gone : TRUE]
               /\ cleared' = FALSE
                  /\ sinceInsert' = [sinceInsert EXCEPT ![cacheKey] = 0]
               /\ UNCHANGED <<options, clearedUpTo, encVars, other>>

\* the memoized function, lines 48-71
Call(args) ==
    LET cacheKey == createCacheKeyFromArgs(args)
        cached == MapGet(cache, cacheKey)
        obs == [NoOp EXCEPT !.op = "call", !.key = cacheKey,
                            !.had = StoredUnder(cache, cacheKey),
                            !.prev = LatestFor(promises, cacheKey),
                            !.sinceInsert = sinceInsert[cacheKey],
                            !.afterClear = cleared,
                            !.sizeBefore = Len(cache),
                            !.args = args,
                            !.hitCache = IF StoredUnder(cache, cacheKey) # 0
                                         THEN cache ELSE <<>>,
                            !.hitTimers = IF StoredUnder(cache, cacheKey) # 0
                                          THEN timers ELSE {},
                            !.promisesBefore = promises]
    IN IF cached # 0
       THEN /\ last' = [obs EXCEPT !.result = cached]
            /\ cleared' = FALSE
            /\ UNCHANGED <<options, cache, timers, promises, clearedUpTo, sinceInsert,
                           encVars, other>>
       ELSE LET result == Len(promises) + 1
                inserted == MapSet(cache, cacheKey, result)
                kept == Evict(inserted, options.size)
                gone == {e.value : e \in Range(inserted)} \ {e.value : e \in Range(kept)}
            IN /\ Len(promises) < MaxInvocations
               /\ promises' = Append(promises,
                                [args |-> args, key |-> cacheKey, state |-> "pending"])
               /\ timers' = timers \cup
                                {[key |-> cacheKey, due |-> options.ttl,
                                  armedFor |-> result]}
               /\ cache' = kept
               /\ last' = [obs EXCEPT !.result = result, !.invoked = TRUE,
                                      !.evicted = IF gone = {} THEN 0
                                                  ELSE CHOOSE v \in gone : TRUE]
               /\ cleared' = FALSE
                  /\ sinceInsert' = [sinceInsert EXCEPT ![cacheKey] = 0]
               /\ UNCHANGED <<options, clearedUpTo, encVars, other>>

\* Timer gone wrong: removing a pending entry aborts its computation
Timer_Cancels(t) ==
    /\ t \in timers
    /\ t.due = 0
    /\ cache' = MapDelete(cache, t.key)
    /\ timers' = timers \ {t}
    /\ promises' = [i \in DOMAIN promises |->
                        IF i = StoredUnder(cache, t.key) /\ promises[i].state = "pending"
                        THEN [promises[i] EXCEPT !.state = "rejected"]
                        ELSE promises[i]]
    /\ last' = [NoOp EXCEPT !.op = "timer", !.key = t.key, !.armedFor = t.armedFor,
                            !.removed = StoredUnder(cache, t.key),
                            !.sizeBefore = Len(cache),
                            !.promisesBefore = promises]
    /\ UNCHANGED <<options, cleared, clearedUpTo, sinceInsert, encVars, other>>

\* Timer gone wrong: the callback deletes nothing
Timer_KeepsEntry(t) ==
    /\ t \in timers
    /\ t.due = 0
    /\ cache' = cache
    /\ timers' = timers \ {t}
    /\ last' = [NoOp EXCEPT !.op = "timer", !.key = t.key, !.armedFor = t.armedFor,
                            !.sizeBefore = Len(cache)]
    /\ UNCHANGED <<options, promises, cleared, clearedUpTo, sinceInsert, encVars, other>>

\* the callback of line 64: () => cache.delete(cacheKey)
Timer(t) ==
    /\ t \in timers
    /\ t.due = 0
    /\ cache' = MapDelete(cache, t.key)
    /\ timers' = timers \ {t}
    /\ last' = [NoOp EXCEPT !.op = "timer", !.key = t.key, !.armedFor = t.armedFor,
                            !.removed = StoredUnder(cache, t.key),
                            !.sizeBefore = Len(cache),
                            !.promisesBefore = promises]
    /\ UNCHANGED <<options, promises, cleared, clearedUpTo, sinceInsert,
                   encVars, other>>

\* cache_size, line 73
CacheSize ==
    /\ last' = [NoOp EXCEPT !.op = "cache_size", !.result = Len(cache),
                            !.afterClear = cleared, !.sizeBefore = Len(cache)]
    /\ UNCHANGED <<options, cache, timers, promises, cleared, clearedUpTo, sinceInsert, encVars, other>>

\* ClearCache gone wrong: only the oldest entry is dropped
ClearCache_OldestOnly ==
    /\ cache' = IF cache = <<>> THEN cache ELSE Tail(cache)
    /\ clearedUpTo' = Len(promises)
    /\ cleared' = TRUE
    /\ last' = [NoOp EXCEPT !.op = "clear_cache", !.sizeBefore = Len(cache)]
    /\ UNCHANGED <<options, timers, promises, sinceInsert, encVars, other>>

\* clear_cache, line 74
ClearCache ==
    /\ cache' = <<>>
    /\ clearedUpTo' = Len(promises)
    /\ cleared' = TRUE
    /\ last' = [NoOp EXCEPT !.op = "clear_cache", !.sizeBefore = Len(cache),
                            !.promisesBefore = promises]
    /\ UNCHANGED <<options, timers, promises, sinceInsert, encVars, other>>

\* Settle gone wrong: the entry is kept only while the computation is in flight
Settle_DropsSettled(i, outcome) ==
    /\ i \in DOMAIN promises
    /\ promises[i].state = "pending"
    /\ promises' = [promises EXCEPT ![i].state = outcome]
    /\ cache' = SelectSeq(cache, LAMBDA e : e.value # i)
    /\ last' = [NoOp EXCEPT !.op = "settle", !.result = i,
                            !.had = StoredUnder(cache, promises[i].key),
                            !.sizeBefore = Len(cache)]
    /\ UNCHANGED <<options, timers, cleared, clearedUpTo, sinceInsert, encVars, other>>

\* Settle gone wrong: a failure takes its entry out of the cache
Settle_DropsFailure(i, outcome) ==
    /\ i \in DOMAIN promises
    /\ promises[i].state = "pending"
    /\ promises' = [promises EXCEPT ![i].state = outcome]
    /\ cache' = IF outcome = "rejected"
                THEN SelectSeq(cache, LAMBDA e : e.value # i)
                ELSE cache
    /\ last' = [NoOp EXCEPT !.op = "settle", !.result = i,
                            !.had = StoredUnder(cache, promises[i].key),
                            !.sizeBefore = Len(cache)]
    /\ UNCHANGED <<options, timers, cleared, clearedUpTo, sinceInsert, encVars, other>>

\* the promise returned by f settles
Settle(i, outcome) ==
    /\ i \in DOMAIN promises
    /\ promises[i].state = "pending"
    /\ promises' = [promises EXCEPT ![i].state = outcome]
    /\ last' = [NoOp EXCEPT !.op = "settle", !.result = i,
                            !.had = StoredUnder(cache, promises[i].key),
                            !.sizeBefore = Len(cache)]
    /\ UNCHANGED <<options, cache, timers, cleared, clearedUpTo, sinceInsert,
                   encVars, other>>

\* a second passes, for every memoized function; a timer that is due fires first.  The history clock stops
\* counting at ttl + 1, which tells "more than ttl" apart from the shorter times.
Tick ==
    /\ \A t \in timers \cup other.timers : t.due > 0
    /\ timers' = {[t EXCEPT !.due = t.due - 1] : t \in timers}
    /\ sinceInsert' = [k \in CallKeys |->
                        IF sinceInsert[k] = Never THEN Never
                        ELSE Min(sinceInsert[k] + 1, options.ttl + 1)]
    /\ other' = [other EXCEPT !.timers = {[t EXCEPT !.due = t.due - 1] : t \in other.timers}]
    /\ last' = [NoOp EXCEPT !.op = "tick"]
    /\ UNCHANGED <<options, cache, promises, cleared, clearedUpTo, encVars>>

Next ==
    \/ \E args \in CallArgs : Call(args)
    \/ \E t \in timers : Timer(t)
    \/ CacheSize
    \/ ClearCache
    \/ \E i \in DOMAIN promises : Settle(i, "fulfilled")
    \/ \E i \in DOMAIN promises : Settle(i, "rejected")
    \/ Tick

Spec == Init /\ [][Next]_vars

----------------------------------------------------------------------------
(* Properties of the cache *)

Pending(i) == promises[i].state = "pending"

Rejected(i) == promises[i].state = "rejected"

IsCall == last.op = "call"

(* C1, as claimed: at most one computation per key is in flight, in every  *)
(* interleaving of calls, timer firings, evictions and clear_cache: no two *)
(* unresolved promises of f belong to the same key.                        *)
C1_AtMostOneInFlight ==
    \A i, j \in DOMAIN promises :
        (Pending(i) /\ Pending(j) /\ promises[i].key = promises[j].key) => i = j

(* C1, amended: while the entry of an unresolved computation for k is still *)
(* in the cache, a call for k starts no second invocation and returns that  *)
(* entry's handle; an unresolved computation for k that coexists with a     *)
(* later one for k has lost its cache entry before the later one started.   *)
C1_OneInFlightWhileCached ==
    /\ (IsCall /\ last.had # 0 /\ Pending(last.had))
            => (~last.invoked /\ last.result = last.had)
    /\ \A i, j \in DOMAIN promises :
            (i < j /\ Pending(i) /\ promises[i].key = promises[j].key)
                => StoredUnder(cache, promises[i].key) # i

C1_Witness ==
    /\ IsCall
    /\ last.had # 0
    /\ Pending(last.had)
    /\ last.result = last.had
    /\ ~last.invoked

(* C2, as claimed: a call(args) that follows the call(args) which inserted *)
(* the entry by less than ttl seconds returns the same handle and does not *)
(* invoke the wrapped function again, whatever happened in between.        *)
C2_HitWithinTtl ==
    (IsCall /\ last.sinceInsert >= 0 /\ last.sinceInsert < options.ttl)
        => (~last.invoked /\ last.result = last.prev)

(* C2, amended: a call(args) that follows another call(args) returns the   *)
(* same handle and does not invoke the wrapped function again, provided    *)
(* the entry is still in the cache (no eviction, clear_cache or timer      *)
(* firing for its key removed it in between).                              *)
C2_HitWhileCached ==
    (IsCall /\ last.had # 0)
        => (~last.invoked /\ last.result = last.had /\ last.had = last.prev)

C2_Witness ==
    /\ IsCall
    /\ last.had # 0
    /\ last.sinceInsert >= 1
    /\ last.sinceInsert < options.ttl
    /\ last.result = last.prev
    /\ ~last.invoked

(* C3: a call(args) made more than ttl seconds after the latest insertion  *)
(* of its key misses and invokes the wrapped function again.               *)
C3_Expiry ==
    (IsCall /\ last.sinceInsert > options.ttl)
        => (last.had = 0 /\ last.invoked /\ last.result # last.prev)

C3_Witness ==
    /\ IsCall
    /\ last.prev # 0
    /\ last.sinceInsert > options.ttl
    /\ last.invoked

(* C4: with size >= 1 the cache never holds more than size entries once a  *)
(* call has completed its insert-and-evict step, in every reachable state. *)
C4_SizeBound == Len(cache) <= options.size

C4_Witness ==
    /\ IsCall
    /\ last.evicted # 0
    /\ Len(cache) = options.size

(* C5: an insert evicts an entry if and only if the store would exceed     *)
(* size, the entry evicted is the earliest-inserted one still present      *)
(* (promises are numbered in the order of insertion), never the one just   *)
(* inserted, and a hit evicts nothing.                                     *)
C5_FifoEviction ==
    IsCall =>
        /\ last.invoked => (last.evicted # 0 <=> last.sizeBefore + 1 > options.size)
        /\ ~last.invoked => last.evicted = 0
        /\ last.evicted # 0 =>
              /\ \A e \in Range(cache) : e.value > last.evicted
              /\ StoredUnder(cache, last.key) = last.result
              /\ Len(cache) = last.sizeBefore

C5_Witness ==
    /\ IsCall
    /\ options.size = 2
    /\ last.evicted # 0
    /\ Len(cache) = 2
    /\ \A e \in Range(cache) : e.value > last.evicted

(* C6: right after clear_cache the cache is empty, cache_size() is 0, and  *)
(* the next call misses and invokes the wrapped function.                  *)
C6_ClearCache ==
    /\ last.op = "clear_cache" => Len(cache) = 0
    /\ (last.op = "cache_size" /\ last.afterClear) => last.result = 0
    /\ (IsCall /\ last.afterClear) => (last.invoked /\ last.had = 0)

C6_Witness ==
    /\ IsCall
    /\ last.afterClear
    /\ last.prev # 0
    /\ last.prev <= clearedUpTo
    /\ last.invoked

(* C7: no timer armed before a clear_cache fires to remove an entry that   *)
(* was inserted after that clear_cache.                                    *)
C7_NoStaleTimerAfterClear ==
    (last.op = "timer" /\ last.removed # 0)
        => ~(last.armedFor <= clearedUpTo /\ last.removed > clearedUpTo)

(* C8: a failed computation's handle stays in the cache like a successful  *)
(* one: the failure removes nothing, a call for its key while it is cached *)
(* returns the failed handle without invoking, and a call for its key more *)
(* than ttl after its insertion invokes the wrapped function again.        *)
C8_FailureCaching ==
    /\ last.op = "settle" =>
          /\ Len(cache) = last.sizeBefore
          /\ StoredUnder(cache, promises[last.result].key) = last.had
    /\ (IsCall /\ last.had # 0 /\ Rejected(last.had))
            => (~last.invoked /\ last.result = last.had)
    /\ (IsCall /\ last.prev # 0 /\ Rejected(last.prev) /\ last.sinceInsert > options.ttl)
            => (last.invoked /\ last.result # last.prev)

C8_Witness ==
    /\ IsCall
    /\ last.had # 0
    /\ Rejected(last.had)
    /\ last.result = last.had
    /\ ~last.invoked

(* C12: a timer that fires removes the entry under its key only if that    *)
(* entry is the very one the timer was armed for; an entry inserted under  *)
(* the key after the armed one was evicted or cleared is left in place.    *)
C12_TimerRemovesOnlyOwn ==
    (last.op = "timer" /\ last.removed # 0) => last.removed = last.armedFor

(* C13: eviction cancels the evicted entry's timer: after an insert that   *)
(* evicted the oldest entry, no pending timer armed for that entry is left. *)
C13_EvictionCancelsTimer ==
    (IsCall /\ last.evicted # 0)
        => ~ \E t \in timers : t.armedFor = last.evicted

(* C14: a cache hit changes nothing: the entries, their order and the      *)
(* pending timers with the time left on each are as before the call.       *)
C14_HitChangesNothing ==
    (IsCall /\ last.had # 0)
        => (cache = last.hitCache /\ timers = last.hitTimers)

C14_Witness ==
    /\ IsCall
    /\ last.had # 0
    /\ Len(cache) = 2
    /\ cache[1].value = last.result
    /\ cache = last.hitCache
    /\ \E t \in timers : t.armedFor = last.result /\ t.due < options.ttl

(* C15: a call starts exactly one execution of the wrapped function when   *)
(* its key is absent and none when it is present; the execution started is *)
(* the entry inserted, so invocations and insertions stay equal in number. *)
C15_OneInvocationPerMiss ==
    IsCall =>
        /\ last.invoked <=> last.had = 0
        /\ Len(promises) = Len(last.promisesBefore) + (IF last.had = 0 THEN 1 ELSE 0)
        /\ last.had = 0 =>
              /\ last.result = Len(promises)
              /\ \E e \in Range(cache) : e.value = last.result
              /\ Cardinality({e \in Range(cache) : e.value > Len(last.promisesBefore)}) = 1
        /\ last.had # 0 =>
              \A e \in Range(cache) : e.value <= Len(last.promisesBefore)

C15_Witness ==
    /\ IsCall
    /\ last.had # 0
    /\ ~last.invoked
    /\ Len(promises) = 2
    /\ Len(last.promisesBefore) = 2

(* C16: removing a pending entry (timer, eviction, clear_cache) leaves its *)
(* computation alone: the promise stays as it was and can still settle     *)
(* either way, and a call for the key after the removal misses and starts  *)
(* a fresh computation beside the old one.                                 *)
C16_NoCancellation ==
    /\ last.op \in {"timer", "clear_cache"} => promises = last.promisesBefore
    /\ IsCall => SubSeq(promises, 1, Len(last.promisesBefore)) = last.promisesBefore
    /\ \A i \in DOMAIN promises :
          Pending(i) => (ENABLED Settle(i, "fulfilled") /\ ENABLED Settle(i, "rejected"))
    /\ (IsCall /\ last.prev # 0 /\ Pending(last.prev) /\ last.had # last.prev)
          => (last.invoked /\ last.result > last.prev /\ Pending(last.result))

C16_Witness ==
    /\ IsCall
    /\ last.prev # 0
    /\ Pending(last.prev)
    /\ last.had = 0
    /\ last.invoked
    /\ last.result > last.prev

(* C17: an entry leaves the cache only by a timer firing for its key, by   *)
(* being the oldest entry when an insert overflows, or by clear_cache; a   *)
(* computation settling removes and replaces nothing.                      *)
C17_OnlyThreeWaysOut ==
    [][\A e \in Range(cache) :
          e \notin Range(cache') =>
              \/ last'.op = "timer" /\ last'.key = e.key
              \/ last'.op = "clear_cache"
              \/ /\ last'.op = "call"
                 /\ last'.invoked
                 /\ last'.evicted = e.value
                 /\ e = cache[1]
                 /\ Len(cache) >= options.size]_vars

C17_Witness ==
    /\ last.op = "settle"
    /\ last.had = last.result
    /\ StoredUnder(cache, promises[last.result].key) = last.result
    /\ Rejected(last.result)

(* C20: with size >= 1 the eviction step of a call never removes the entry *)
(* the call just inserted: when the call returns, its key is in the cache  *)
(* and maps to the handle returned.                                        *)
C20_OwnEntryKept ==
    IsCall =>
        /\ StoredUnder(cache, last.key) = last.result
        /\ last.evicted # last.result

C20_Witness ==
    /\ IsCall
    /\ last.invoked
    /\ last.evicted # 0
    /\ options.size = 1
    /\ StoredUnder(cache, last.key) = last.result

----------------------------------------------------------------------------
(* The cache under the four calls of the key distinctness example *)

InitDistinct ==
    /\ Init
    /\ options.ttl = 1

NextDistinct ==
    \/ \E args \in DistinctArgs : Call(args)
    \/ \E t \in timers : Timer(t)
    \/ CacheSize
    \/ ClearCache
    \/ \E i \in DOMAIN promises : Settle(i, "fulfilled")
    \/ \E i \in DOMAIN promises : Settle(i, "rejected")
    \/ Tick

SpecDistinct == InitDistinct /\ [][NextDistinct]_vars

(* C11: call(1), call(2), call(1, "x") and call(1, "y") have entries of    *)
(* their own: a call is never a hit on an entry made for other arguments,  *)
(* the handle it gets comes from invoking the wrapped function with its    *)
(* own arguments, and the entries of different calls sit side by side.     *)
C11_DistinctCalls ==
    /\ IsCall => promises[last.result].args = last.args
    /\ \A e \in Range(cache) : e.key = createCacheKeyFromArgs(promises[e.value].args)
    /\ \A i, j \in DOMAIN promises :
          promises[i].args # promises[j].args => promises[i].key # promises[j].key
    /\ (IsCall /\ last.prev = 0) => last.invoked

C11_Witness ==
    /\ IsCall
    /\ last.invoked
    /\ last.args = <<Num(1), Str(<<"y">>)>>
    /\ Len(cache) = 2
    /\ promises[cache[1].value].args = <<Num(1), Str(<<"x">>)>>
    /\ promises[cache[2].value].args = <<Num(1), Str(<<"y">>)>>
    /\ \E i \in DOMAIN promises : promises[i].args = <<Num(1)>>

----------------------------------------------------------------------------
(* The cache when the event loop keeps running: time passes and a timer    *)
(* that is due gets its callback run.  Nothing is assumed about calls.     *)

\* The promises stay unsettled here: no line of the cache reads a promise's state.
NextLive ==
    \/ \E args \in CallArgs : Call(args)
    \/ \E t \in timers : Timer(t)
    \/ CacheSize
    \/ ClearCache
    \/ Tick

SpecLive ==
    /\ Init
    /\ [][NextLive]_vars
    /\ WF_vars(Tick)
    /\ WF_vars(\E t \in timers : Timer(t))

InCache(i) == \E e \in Range(cache) : e.value = i

(* C19: an entry inserted at time t is gone once more than ttl seconds     *)
(* have passed: while it is cached its own timer is pending with the rest  *)
(* of the ttl left; and when timers fire every inserted entry is           *)
(* eventually removed, whether or not another call is made.                *)
C19_LifetimeBound ==
    \A e \in Range(cache) :
        /\ sinceInsert[e.key] >= 0
        /\ sinceInsert[e.key] <= options.ttl
        /\ \E t \in timers :
              /\ t.armedFor = e.value
              /\ t.key = e.key
              /\ t.due = options.ttl - sinceInsert[e.key]

C19_BoundedLifetime ==
    /\ []C19_LifetimeBound
    /\ \A i \in 1..MaxInvocations : InCache(i) ~> ~InCache(i)

C19_Witness ==
    /\ last.op = "timer"
    /\ last.removed # 0
    /\ last.removed = last.armedFor
    /\ sinceInsert[last.key] = options.ttl
    /\ ~InCache(last.removed)

----------------------------------------------------------------------------
(* Two memoized functions built by two memoize_async calls.  Each call of  *)
(* memoize_async makes its own Map (line 45) and its closures refer to     *)
(* that Map only; the clock is the one thing the two have in common.       *)

OtherArgs == { <<Num(1)>>, <<Num(2)>> }

\* OtherCall gone wrong: the Map is shared by all memoized functions
OtherCall_SharedMap(args) ==
    LET cacheKey == createCacheKeyFromArgs(args)
        cached == MapGet(cache, cacheKey)
        obs == [NoOp EXCEPT !.op = "other_call", !.key = cacheKey, !.args = args,
                            !.had = StoredUnder(other.cache, cacheKey)]
    IN IF cached # 0
       THEN /\ last' = [obs EXCEPT !.result = cached]
            /\ UNCHANGED <<options, cache, timers, promises, cleared, clearedUpTo,
                           sinceInsert, encVars, other>>
       ELSE LET result == other.invocations + 1
            IN /\ other.invocations < MaxOtherInvocations
               /\ cache' = Evict(MapSet(cache, cacheKey, result), other.options.size)
               /\ other' = [other EXCEPT
                              !.invocations = result,
                              !.timers = @ \cup {[key |-> cacheKey,
                                                  due |-> other.options.ttl,
                                                  armedFor |-> result]}]
               /\ last' = [obs EXCEPT !.result = result, !.invoked = TRUE]
               /\ UNCHANGED <<options, timers, promises, cleared, clearedUpTo,
                              sinceInsert, encVars>>

\* the second memoized function, lines 48-71
OtherCall(args) ==
    LET cacheKey == createCacheKeyFromArgs(args)
        cached == MapGet(other.cache, cacheKey)
        obs == [NoOp EXCEPT !.op = "other_call", !.key = cacheKey, !.args = args,
                            !.had = StoredUnder(other.cache, cacheKey)]
    IN IF cached # 0
       THEN /\ last' = [obs EXCEPT !.result = cached]
            /\ UNCHANGED <<options, cache, timers, promises, cleared, clearedUpTo,
                           sinceInsert, encVars, other>>
       ELSE LET result == other.invocations + 1
            IN /\ other.invocations < MaxOtherInvocations
               /\ other' = [other EXCEPT
                              !.invocations = result,
                              !.cache = Evict(MapSet(@, cacheKey, result),
                                              other.options.size),
                              !.timers = @ \cup {[key |-> cacheKey,
                                                  due |-> other.options.ttl,
                                                  armedFor |-> result]}]
               /\ last' = [obs EXCEPT !.result = result, !.invoked = TRUE]
               /\ UNCHANGED <<options, cache, timers, promises, cleared, clearedUpTo,
                              sinceInsert, encVars>>

\* the second memoized function's callback of line 64
OtherTimer(t) ==
    /\ t \in other.timers
    /\ t.due = 0
    /\ other' = [other EXCEPT !.cache = MapDelete(@, t.key), !.timers = @ \ {t}]
    /\ last' = [NoOp EXCEPT !.op = "other_timer", !.key = t.key, !.armedFor = t.armedFor,
                            !.removed = StoredUnder(other.cache, t.key)]
    /\ UNCHANGED <<options, cache, timers, promises, cleared, clearedUpTo, sinceInsert,
                   encVars>>

\* the second memoized function's clear_cache, line 74
OtherClearCache ==
    /\ other' = [other EXCEPT !.cache = <<>>]
    /\ last' = [NoOp EXCEPT !.op = "other_clear_cache", !.sizeBefore = Len(other.cache)]
    /\ UNCHANGED <<options, cache, timers, promises, cleared, clearedUpTo, sinceInsert,
                   encVars>>

InitTwo ==
    /\ Init
    /\ options = [ttl |-> 1, size |-> 1]

\* Both functions' promises stay unsettled here: no line of the cache reads a
\* promise's state.
NextTwo ==
    \/ \E args \in CallArgs : Call(args)
    \/ \E t \in timers : Timer(t)
    \/ ClearCache
    \/ \E args \in OtherArgs : OtherCall(args)
    \/ \E t \in other.timers : OtherTimer(t)
    \/ OtherClearCache
    \/ Tick

SpecTwo == InitTwo /\ [][NextTwo]_vars

OwnOps == {"call", "timer", "clear_cache"}

OtherOps == {"other_call", "other_timer", "other_clear_cache"}

(* C18: two memoized functions share no state: a call, a timer firing, an  *)
(* eviction or a clear_cache of one leaves the entries, the size and the   *)
(* timers of the other as they were, and whether a call of one hits or     *)
(* misses depends on its own entries only, also for identical arguments.   *)
C18_InstanceIsolation ==
    [][/\ last'.op \in OtherOps =>
            (cache' = cache /\ timers' = timers /\ promises' = promises)
       /\ last'.op \in OwnOps => other' = other
       /\ last'.op = "other_call" =>
            (last'.invoked <=> StoredUnder(other.cache, last'.key) = 0)
       /\ last'.op = "call" =>
            (last'.invoked <=> StoredUnder(cache, last'.key) = 0)]_vars

C18_Witness ==
    /\ last.op = "other_call"
    /\ last.invoked
    /\ StoredUnder(cache, last.key) # 0
    /\ StoredUnder(other.cache, last.key) = last.result
    /\ \E t \in timers : t.key = last.key
    /\ \E t \in other.timers : t.key = last.key

----------------------------------------------------------------------------
(* The key encoder on its own: two argument tuples are drawn, then encoded *)

SpecialStrings ==
    { <<"u", "n", "d", "e", "f", "i", "n", "e", "d">>, <<"t", "r", "u", "e">>, <<"1">> }

Scalars ==
    {Str(s) : s \in SeqsUpTo(Alphabet, MaxStrLen) \cup SpecialStrings}
        \cup {Num(n) : n \in 0..MaxNum}
        \cup {Bool(b) : b \in BOOLEAN}
        \cup {Undefined}

ArgTuples == SeqsUpTo(Scalars, MaxArity)

InitKey ==
    /\ other = Fresh([ttl |-> 1, size |-> 1])
    /\ options = [ttl |-> 1, size |-> 1]
    /\ cache = <<>>
    /\ timers = {}
    /\ promises = <<>>
    /\ cleared = FALSE
    /\ clearedUpTo = 0
    /\ sinceInsert = [k \in CallKeys |-> Never]
    /\ last = NoOp
    /\ encArgs \in ArgTuples \X ArgTuples
    /\ encKeys = <<>>

Encode ==
    /\ encKeys = <<>>
    /\ encArgs # <<>>
    /\ encKeys' = <<createCacheKeyFromArgs(encArgs[1]), createCacheKeyFromArgs(encArgs[2])>>
    /\ UNCHANGED <<options, cache, timers, promises, cleared, clearedUpTo, sinceInsert,
                   last, encArgs, other>>

NextKey == Encode

SpecKey == InitKey /\ [][NextKey]_vars

----------------------------------------------------------------------------
(* C9: the key encoder is deterministic and injective over tuples of       *)
(* scalar arguments: identical tuples get identical keys, and two distinct *)
(* tuples, of any arities, get distinct keys.                              *)

C9_KeyInjective ==
    encKeys # <<>> =>
        /\ encArgs[1] = encArgs[2] => encKeys[1] = encKeys[2]
        /\ encArgs[1] # encArgs[2] => encKeys[1] # encKeys[2]

(* C10: an absent (undefined) argument encodes to a segment distinct from  *)
(* that of every real value in the same position, the string "undefined"   *)
(* included: two tuples that differ only in one position, absent in the    *)
(* first and a real value in the second, never get the same key.           *)

AbsentVersusReal(a, b) ==
    /\ Len(a) = Len(b)
    /\ \E i \in DOMAIN a :
          /\ a[i] = Undefined
          /\ b[i] # Undefined
          /\ \A j \in DOMAIN a \ {i} : a[j] = b[j]

C10_AbsentDistinct ==
    (encKeys # <<>> /\ AbsentVersusReal(encArgs[1], encArgs[2]))
        => encKeys[1] # encKeys[2]

====
